---- MODULE Spec2Model ----
(***************************************************************************)
(* Mini Driver: the flight-log web application.                            *)
(*                                                                         *)
(* Two state machines share this module.                                   *)
(*   SpecT  the telemetry transformer _parse_flight_csv                    *)
(*          (app/routes/flights.py), applied to a bounded family of CSV    *)
(*          documents.                                                     *)
(*   Spec   the request handlers (register, login, Google callback,        *)
(*          upload_flight, view_flight) over the users and flights tables. *)
(*                                                                         *)
(* Numbers.  A float is a record [cls, form, a, b, c].  cls is "nan",      *)
(* "pinf", "ninf" or "fin" (and "str" for a Python str held in an object   *)
(* column).  A finite literal has form "lit" and a = its value in units    *)
(* of 10^-(Digits+1).  The two irrational derived channels are kept as     *)
(* exact expressions: form "alt" stands for                                *)
(* 44330 * (1 - (a/b) ** 0.1903) * 3.281 and form "net" for                *)
(* sqrt(a^2 + b^2 + c^2) - 1.0.  Their class (NaN, +-Infinity, finite) is  *)
(* computed by the IEEE-754 rules numpy applies.                           *)
(***************************************************************************)
EXTENDS Integers, Sequences, FiniteSets, TLC

\* ------------------------------------------------------------- bounds
\* Largest number of data rows of an enumerated short document.
MaxRows == 2
\* Largest number of places in which the rows of a document differ from the
\* nominal log.
MaxDev == 1
\* Largest number of rows of table "users".
MaxUsers == 5

\* -------------------------------------------------- program constants
\* round(v, 4)
Digits == 4
\* df["Kpa"].head(10)
BaselineWindow == 10
\* MAX_FILE_SIZE = 10 * 1024 * 1024
MAX_FILE_SIZE == 10 * 1024 * 1024

Scale == 10 ^ (Digits + 1)

VARIABLES
  csv,        \* the CSV text handed to _parse_flight_csv: the nominal log of
              \* n rows and the places where the text deviates from it
  result,     \* its outcome, or None before the call
  admin_env,  \* ADMIN_USERNAME of the environment (<<>> when unset)
  users,      \* the rows of table "users"
  flights,    \* the rows of table "flights"
  tokens,     \* the subjects of the access tokens clients hold
  resp        \* the last request with its response

tvars == <<csv, result>>
wvars == <<admin_env, users, flights, tokens, resp>>
vars == <<csv, result, admin_env, users, flights, tokens, resp>>

None == [kind |-> "none"]

\* ------------------------------------------------------------- floats
Val(cls, form, a, b, c) == [cls |-> cls, form |-> form, a |-> a, b |-> b, c |-> c]
Lit(v) == Val("fin", "lit", v, 0, 0)
NaN == Val("nan", "lit", 0, 0, 0)
PInf == Val("pinf", "lit", 0, 0, 0)
NInf == Val("ninf", "lit", 0, 0, 0)
PyStr == Val("str", "lit", 0, 0, 0)

\* math.isnan(v)
IsNaN(v) == v.cls = "nan"
\* math.isfinite(v)
IsFinite(v) == v.cls = "fin"

\* ------------------------------------------------------ CSV documents
\* A cell of the text: a decimal literal, "inf", an empty field, or text
\* that is no number.
Num(v) == [t |-> "num", v |-> v]
InfTok == [t |-> "inf", v |-> 0]
NATok == [t |-> "na", v |-> 0]
StrTok == [t |-> "str", v |-> 0]

\* A header field is a sequence of pieces: a word, or " " (whitespace).
TimeCol == "Time (ms)"
NominalWords == <<TimeCol, "x", "y", "z", "Kpa", "F">>

\* The nominal log: a rocket at rest, one sample per ms, 70.12346 F, 100 kPa
\* over the baseline window and 95 kPa after it.
NominalCell(r, w) ==
  CASE w = TimeCol -> Num(r * Scale)
    [] w = "x" -> Num(0)
    [] w = "y" -> Num(0)
    [] w = "z" -> Num(Scale)
    [] w = "Kpa" -> Num((IF r <= BaselineWindow THEN 100 ELSE 95) * Scale)
    [] w = "F" -> Num(70 * Scale + 12346)
    [] OTHER -> Num(7 * Scale)

SwapCase(w) ==
  CASE w = TimeCol -> "time (ms)"
    [] w = "x" -> "X"
    [] w = "y" -> "Y"
    [] w = "z" -> "Z"
    [] w = "Kpa" -> "kpa"
    [] w = "F" -> "f"
    [] OTHER -> w

AltTokens == <<Num(0), Num(-100 * Scale), InfTok, NATok, StrTok>>

\* One deviation from the nominal log: another token in cell (r, c); row r
\* one field short or one field long; header field c absent (with its
\* column), padded with whitespace or in the other case; an extra column.
\* A document has at most one deviation in its header and at most MaxDev in
\* its rows.
Edit(k, r, c, tok) == [k |-> k, r |-> r, c |-> c, tok |-> tok]
NumEdits(n) == n * 6 * Len(AltTokens) + 2 * n
\* The i-th deviation of the rows of a document with n rows.
EditAt(n, i) ==
  LET nt == Len(AltTokens)
      cells == n * 6 * nt
      j == i - 1
  IN IF i <= cells
       THEN Edit("cell", (j \div (6 * nt)) + 1, ((j \div nt) % 6) + 1, AltTokens[(j % nt) + 1])
     ELSE IF i <= cells + n THEN Edit("trunc", i - cells, 0, NATok)
     ELSE Edit("extend", i - cells - n, 0, NATok)

\* The headers: the nominal one, or one deviation from it.
HeaderEdits ==
  {{}} \cup {{Edit(k, 0, c, NATok)} : k \in {"hdrop", "hpad", "hcase"}, c \in 1..6}
       \cup {{Edit("hextra", 0, 0, NATok)}}

\* The k digits of code in the given base, most significant first.  A digit
\* 0 stands for no deviation, a digit i > 0 for the i-th one; a choice of
\* deviations is written once, with its digits increasing.
RECURSIVE DigitsOf(_, _, _)
DigitsOf(code, base, k) ==
  IF k <= 0 THEN <<>>
  ELSE Append(DigitsOf(code \div base, base, k - 1), code % base)
Canonical(ds) == \A i \in 1..(Len(ds) - 1) : ds[i] = 0 \/ ds[i] < ds[i + 1]
EditSet(n, ds) == {EditAt(n, ds[i]) : i \in {j \in DOMAIN ds : ds[j] # 0}}

Has(E, k, r, c) == \E e \in E : e.k = k /\ e.r = r /\ e.c = c

RECURSIVE KeptCols(_, _)
KeptCols(E, c) ==
  IF c > 6 THEN <<>>
  ELSE (IF Has(E, "hdrop", 0, c) THEN <<>> ELSE <<c>>) \o KeptCols(E, c + 1)

HeaderField(E, c) ==
  LET w == IF Has(E, "hcase", 0, c) THEN SwapCase(NominalWords[c])
           ELSE NominalWords[c]
  IN IF Has(E, "hpad", 0, c) THEN <<" ", w, " ">> ELSE <<w>>

CellOf(E, r, c) ==
  IF \E e \in E : e.k = "cell" /\ e.r = r /\ e.c = c
  THEN (CHOOSE e \in E : e.k = "cell" /\ e.r = r /\ e.c = c).tok
  ELSE NominalCell(r, NominalWords[c])

RowOf(E, r) ==
  LET kept == KeptCols(E, 1)
      base == [i \in 1..Len(kept) |-> CellOf(E, r, kept[i])]
      full == IF Has(E, "hextra", 0, 0) THEN Append(base, NominalCell(r, "extra"))
              ELSE base
      cut == IF Has(E, "trunc", r, 0) THEN SubSeq(full, 1, Len(full) - 1) ELSE full
  IN IF Has(E, "extend", r, 0) THEN Append(cut, NominalCell(r, "extra")) ELSE cut

EmptyDoc == [hdr |-> <<>>, rows |-> <<>>]
EmptyText == [n |-> 0, edits |-> {Edit("empty", 0, 0, NATok)}]

\* The document a description [n, edits] stands for: its header fields and
\* its rows of cells.
MakeDoc(n, E) ==
  LET kept == KeptCols(E, 1)
      base == [i \in 1..Len(kept) |-> HeaderField(E, kept[i])]
  IN IF Has(E, "empty", 0, 0) THEN EmptyDoc
     ELSE [hdr |-> IF Has(E, "hextra", 0, 0) THEN Append(base, <<"extra">>) ELSE base,
           rows |-> [r \in 1..n |-> RowOf(E, r)]]
Doc(c) == MakeDoc(c.n, c.edits)

\* An edit set names each cell at most once, and no cell of an absent column.
Consistent(E) ==
  /\ \A e, f \in E : (e.k = "cell" /\ f.k = "cell" /\ e.r = f.r /\ e.c = f.c) => e = f
  /\ \A e \in E : e.k = "cell" => ~Has(E, "hdrop", 0, e.c)

\* The families of inputs <<rows, row deviations>>: every short document, and
\* the documents one row longer than the baseline window (with one deviation
\* fewer).
Families ==
  {<<n, MaxDev>> : n \in 0..MaxRows} \cup {<<BaselineWindow + 1, MaxDev - 1>>}

\* c describes the document of n rows with the header deviation H and the
\* row deviations code names.
IsInput(c, n, k, H, code) ==
  LET ds == DigitsOf(code, NumEdits(n) + 1, k)
  IN /\ Canonical(ds)
     /\ Consistent(H \cup EditSet(n, ds))
     /\ c = [n |-> n, edits |-> H \cup EditSet(n, ds)]

\* ------------------------------------------------------- small helpers
Max(a, b) == IF a >= b THEN a ELSE b
Min(a, b) == IF a <= b THEN a ELSE b
Abs(a) == IF a >= 0 THEN a ELSE -a
Range(s) == {s[i] : i \in DOMAIN s}

RECURSIVE SumA(_, _)
SumA(s, i) == IF i > Len(s) THEN 0 ELSE s[i].a + SumA(s, i + 1)

\* ------------------------------------------------------ pd.read_csv
Err == Val("err", "lit", 0, 0, 0)
IsErr(v) == v.cls \in {"err", "str"}

Raise(exc, missing, derived) ==
  [kind |-> "raise", exc |-> exc, missing |-> missing, derived |-> derived,
   out |-> <<>>]

\* The cell of row r at field position p; a row that ends early is padded
\* with missing fields.
FieldAt(d, r, p) == IF p <= Len(d.rows[r]) THEN d.rows[r][p] ELSE NATok

\* One text cell as the value pandas stores: an empty field is NaN; in a
\* column holding any non-numeric text every other cell stays a str.
ParseCell(tok, object) ==
  CASE tok.t = "na" -> NaN
    [] object -> PyStr
    [] tok.t = "inf" -> PInf
    [] OTHER -> Lit(tok.v)

\* The column at field position p.
Column(d, p) ==
  LET n == Len(d.rows)
      object == \E r \in 1..n : FieldAt(d, r, p).t = "str"
  IN [r \in 1..n |-> ParseCell(FieldAt(d, r, p), object)]

\* pd.read_csv(io.StringIO(csv_text)) with the C engine's defaults: the
\* first line is the header; the first data line fixes the table width (a
\* first line longer than the header turns its leading fields into the
\* index); a later line with more fields is a tokenizing error; shorter
\* lines are padded.
ReadCsv(d) ==
  LET n == Len(d.rows)
      h == Len(d.hdr)
      width == IF n = 0 THEN h ELSE Max(h, Len(d.rows[1]))
      leading == width - h
  IN IF h = 0 THEN Raise("EmptyDataError", {}, FALSE)
     ELSE IF \E r \in 2..n : Len(d.rows[r]) > width
       THEN Raise("ParserError", {}, FALSE)
     ELSE [kind |-> "frame", columns |-> d.hdr, n |-> n,
           data |-> [j \in 1..h |-> Column(d, leading + j)]]

\* str.strip() on a header field.
RECURSIVE LStrip(_)
LStrip(f) == IF f # <<>> /\ Head(f) = " " THEN LStrip(Tail(f)) ELSE f
RECURSIVE RStrip(_)
RStrip(f) ==
  IF f # <<>> /\ f[Len(f)] = " " THEN RStrip(SubSeq(f, 1, Len(f) - 1)) ELSE f
Strip(f) == RStrip(LStrip(f))

\* required = {time_col, "x", "y", "z", "Kpa", "F"}
required == {<<NominalWords[c]>> : c \in 1..6}

\* -------------------------------------------------- derived metrics
\* series.head(k)
HeadK(s, k) == SubSeq(s, 1, Min(k, Len(s)))

\* A mean that fails on an empty selection, as statistics.mean does.
MeanStrict(s) ==
  LET nn == SelectSeq(s, LAMBDA v : ~IsNaN(v))
  IN IF nn = <<>> \/ \E i \in DOMAIN s : IsErr(s[i]) THEN Err
     ELSE IF \E i \in DOMAIN nn : nn[i].cls = "pinf"
       THEN (IF \E i \in DOMAIN nn : nn[i].cls = "ninf" THEN NaN ELSE PInf)
     ELSE IF \E i \in DOMAIN nn : nn[i].cls = "ninf" THEN NInf
     ELSE Val("fin", "ratio", SumA(nn, 1), Len(nn), 0)

\* Series.mean(): NaN entries are skipped; the mean of nothing is NaN; the
\* result is kept as the exact fraction sum / count.
Mean(s) ==
  LET nn == SelectSeq(s, LAMBDA v : ~IsNaN(v))
  IN IF \E i \in DOMAIN s : IsErr(s[i]) THEN Err
     ELSE IF nn = <<>> THEN NaN
     ELSE IF \E i \in DOMAIN nn : nn[i].cls = "pinf"
       THEN (IF \E i \in DOMAIN nn : nn[i].cls = "ninf" THEN NaN ELSE PInf)
     ELSE IF \E i \in DOMAIN nn : nn[i].cls = "ninf" THEN NInf
     ELSE Val("fin", "ratio", SumA(nn, 1), Len(nn), 0)

\* k / b for a column value k and the baseline b (a fraction a/b or a
\* special value), by the IEEE rules: x/0 is +-inf, 0/0 and inf/inf are NaN.
Div(k, b) ==
  CASE IsErr(k) \/ IsErr(b) -> Err
    [] IsNaN(k) \/ IsNaN(b) -> NaN
    [] b.cls = "fin" /\ b.a = 0 ->
         (CASE k.cls = "pinf" -> PInf
            [] k.cls = "ninf" -> NInf
            [] k.a > 0 -> PInf
            [] k.a < 0 -> NInf
            [] OTHER -> NaN)
    [] b.cls = "fin" ->
         (CASE k.cls = "pinf" -> IF b.a > 0 THEN PInf ELSE NInf
            [] k.cls = "ninf" -> IF b.a > 0 THEN NInf ELSE PInf
            [] OTHER ->
                 Val("fin", "ratio", (IF b.a > 0 THEN 1 ELSE -1) * k.a * b.b,
                     Abs(b.a), 0))
    [] OTHER ->
         IF k.cls = "fin" THEN Val("fin", "ratio", 0, 1, 0) ELSE NaN

\* 44330 * (1 - (k / baseline_kpa) ** 0.1903) * 3.281: a negative base gives
\* NaN, (+-inf) ** 0.1903 is +inf and 1 - inf is -inf.
Altitude(k, baseline_kpa) ==
  LET q == Div(k, baseline_kpa)
  IN CASE IsErr(q) -> Err
       [] IsNaN(q) -> NaN
       [] q.cls \in {"pinf", "ninf"} -> NInf
       [] q.a < 0 -> NaN
       [] OTHER -> Val("fin", "alt", q.a, q.b, 0)

\* (x ** 2 + y ** 2 + z ** 2) ** 0.5 - 1.0
NetAccel(x, y, z) ==
  CASE IsErr(x) \/ IsErr(y) \/ IsErr(z) -> Err
    [] IsNaN(x) \/ IsNaN(y) \/ IsNaN(z) -> NaN
    [] ~IsFinite(x) \/ ~IsFinite(y) \/ ~IsFinite(z) -> PInf
    [] OTHER -> Val("fin", "net", x.a, y.a, z.a)

\* round(v, 4): to the nearest multiple of 10^-4, a tie to the even one;
\* round(inf, 4) is inf; a derived expression is marked as rounded.
Round4(v) ==
  LET step == Scale \div (10 ^ Digits)
      q == v.a \div step
      rem == v.a % step
      up == (2 * rem > step) \/ (2 * rem = step /\ q % 2 = 1)
  IN IF ~IsFinite(v) THEN v
     ELSE IF v.form = "lit" THEN Lit((IF up THEN q + 1 ELSE q) * step)
     ELSE [v EXCEPT !.form = v.form \o "_r4"]

\* A sanitizer that drops the NaN entries instead of replacing them.
to_list_dropping(series) ==
  LET kept == SelectSeq(series, LAMBDA v : ~IsNaN(v))
  IN [i \in DOMAIN kept |-> Round4(kept[i])]

\* [round(v, 4) if not math.isnan(v) else 0.0 for v in series]
to_list(series) ==
  [i \in DOMAIN series |-> IF ~IsNaN(series[i]) THEN Round4(series[i]) ELSE Lit(0)]

\* _parse_flight_csv(csv_text)
ParseFlightCsv(d) ==
  LET df == ReadCsv(d)
  IN IF df.kind = "raise" THEN df
     ELSE
       LET columns == [j \in DOMAIN df.columns |-> Strip(df.columns[j])]
           missing == required \ Range(columns)
           col(w) == df.data[CHOOSE j \in DOMAIN columns : columns[j] = <<w>>]
       IN IF missing # {} THEN Raise("ValueError", missing, FALSE)
          ELSE
            LET baseline_kpa == Mean(HeadK(col("Kpa"), BaselineWindow))
                altitude_ft == [i \in 1..df.n |-> Altitude(col("Kpa")[i], baseline_kpa)]
                net_accel == [i \in 1..df.n |->
                                NetAccel(col("x")[i], col("y")[i], col("z")[i])]
                raw == <<col(TimeCol), col("x"), col("y"), col("z"), col("F")>>
                bad(s) == \E i \in DOMAIN s : IsErr(s[i])
            IN IF IsErr(baseline_kpa) \/ bad(altitude_ft) \/ bad(net_accel)
                    \/ \E k \in DOMAIN raw : bad(raw[k])
               THEN Raise("TypeError", {}, TRUE)
               ELSE [kind |-> "ok", exc |-> "", missing |-> {}, derived |-> TRUE,
                     out |-> [time |-> to_list(col(TimeCol)),
                              altitude |-> to_list(altitude_ft),
                              net_accel |-> to_list(net_accel),
                              x |-> to_list(col("x")),
                              y |-> to_list(col("y")),
                              z |-> to_list(col("z")),
                              temp |-> to_list(col("F"))]]

\* ------------------------------------------------ transformer machine
NoRequest ==
  [op |-> "none", status |-> 0, location |-> "", error |-> "", cookie |-> [kind |-> "none", sub |-> 0],
   user |-> 0, created |-> 0, iterations |-> 0, username |-> <<>>, email |-> <<>>,
   flight_id |-> 0, filename |-> <<>>, size |-> 0, text |-> "", tried |-> FALSE]

InitT ==
  /\ admin_env = <<>> /\ users = {} /\ flights = {} /\ tokens = {} /\ resp = NoRequest
  /\ \/ csv = EmptyText
     \/ \E fam \in Families :
          \E H \in HeaderEdits, code \in 0..((NumEdits(fam[1]) + 1) ^ fam[2] - 1) :
            IsInput(csv, fam[1], fam[2], H, code)
  /\ result = None

\* One call of _parse_flight_csv on the document.
CallParseFlightCsv ==
  /\ result = None
  /\ result' = ParseFlightCsv(Doc(csv))
  /\ UNCHANGED <<csv, wvars>>

NextT == CallParseFlightCsv

SpecT == InitT /\ [][NextT]_vars

\* ===================================================== the web application
\* Strings the handlers inspect are sequences of characters.
\* User rows carry the columns the handlers read: id, username, email,
\* is_admin.  Passwords and the login form are left out.

\* String(50) username cut: base[:40]
USERNAME_CUT == 40

LowerOf(ch) ==
  CASE ch = "A" -> "a" [] ch = "B" -> "b" [] ch = "C" -> "c" [] ch = "S" -> "s"
    [] ch = "V" -> "v" [] OTHER -> ch
LowerAlnum == {"a", "b", "c", "e", "r", "s", "u", "v", "x",
               "0", "1", "2", "3", "4", "5", "6", "7", "8", "9"}
DigitChars == <<"0", "1", "2", "3", "4", "5", "6", "7", "8", "9">>

\* str(counter)
RECURSIVE Decimal(_)
Decimal(k) ==
  IF k < 10 THEN <<DigitChars[k + 1]>>
  ELSE Append(Decimal(k \div 10), DigitChars[(k % 10) + 1])

\* email.split("@")[0]
RECURSIVE BeforeAt(_)
BeforeAt(e) ==
  IF e = <<>> \/ Head(e) = "@" THEN <<>> ELSE <<Head(e)>> \o BeforeAt(Tail(e))

\* s.endswith(suffix)
EndsWith(str, suffix) ==
  /\ Len(str) >= Len(suffix)
  /\ SubSeq(str, Len(str) - Len(suffix) + 1, Len(str)) = suffix

\* ---------------------------------------------------------- the tables
User(id, username, email, is_admin) ==
  [id |-> id, username |-> username, email |-> email, is_admin |-> is_admin]

\* The attributes class Flight declares; a keyword argument of the
\* constructor outside them is a TypeError.
FlightAttributes ==
  {"id", "user_id", "name", "description", "filename", "uploaded_at", "owner"}
\* nullable=False without a default
FlightRequired == {"user_id", "name", "filename"}

NextId(rows) ==
  IF rows = {} THEN 1
  ELSE 1 + (CHOOSE m \in {r.id : r \in rows} : \A r \in rows : r.id <= m)

\* username and email are unique=True: a commit that would break either
\* raises IntegrityError and adds nothing.
CanInsertUser(db, u) ==
  \A v \in db : v.username # u.username /\ v.email # u.email /\ v.id # u.id

\* ----------------------------------------------------------- app/auth.py
Cookie(kind, sub) == [kind |-> kind, sub |-> sub]
NoCookie == Cookie("none", 0)
BadToken == Cookie("bad", 0)
Cookies == {NoCookie, BadToken} \cup {Cookie("jwt", t) : t \in tokens}

\* get_current_user: the user the cookie names, or id 0 for the redirect to
\* /login (no cookie, a token that does not decode, no such user).
NoUser == User(0, <<>>, <<>>, FALSE)
get_current_user(cookie, db) ==
  IF cookie.kind # "jwt" THEN NoUser
  ELSE IF \E u \in db : u.id = cookie.sub
    THEN CHOOSE u \in db : u.id = cookie.sub
  ELSE NoUser

Response(op, status, location, error) ==
  [NoRequest EXCEPT !.op = op, !.status = status, !.location = location,
                    !.error = error]
LoginRedirect(op, cookie) ==
  [Response(op, 303, "/login", "") EXCEPT !.cookie = cookie]

\* --------------------------------------------------- app/routes/auth.py
\* _is_first_user / _should_be_admin
should_be_admin(username, db) ==
  \/ db = {}
  \/ admin_env # <<>> /\ username = admin_env

\* re.sub(r"[^a-z0-9]", "", base.lower()) or "user", then base[:40]
NormalizeBase(base) ==
  LET lowered == [i \in DOMAIN base |-> LowerOf(base[i])]
      kept == SelectSeq(lowered, LAMBDA ch : ch \in LowerAlnum)
      named == IF kept = <<>> THEN <<"u", "s", "e", "r">> ELSE kept
  IN SubSeq(named, 1, Min(USERNAME_CUT, Len(named)))

\* The while loop of _unique_username: the name returned and the number of
\* passes through the loop body.
RECURSIVE UniqueLoop(_, _, _, _)
UniqueLoop(base, username, counter, db) ==
  IF \E u \in db : u.username = username
    THEN UniqueLoop(base, base \o Decimal(counter), counter + 1, db)
  ELSE [username |-> username, iterations |-> counter - 1]

\* _unique_username without the loop.
unique_username_once(base, db) ==
  [username |-> NormalizeBase(base), iterations |-> 0]

unique_username(base, db) ==
  UniqueLoop(NormalizeBase(base), NormalizeBase(base), 1, db)

\* POST /register
Register(username, email) ==
  /\ Cardinality(users) < MaxUsers
  /\ LET new == User(NextId(users), username, email, should_be_admin(username, users))
         req == [NoRequest EXCEPT !.op = "register", !.username = username,
                                  !.email = email]
     IN IF \E u \in users : u.username = username
          THEN /\ resp' = [req EXCEPT !.status = 400, !.error = "Username already taken."]
               /\ UNCHANGED <<users, tokens>>
        ELSE IF \E u \in users : u.email = email
          THEN /\ resp' = [req EXCEPT !.status = 400, !.error = "Email already registered."]
               /\ UNCHANGED <<users, tokens>>
        ELSE IF ~CanInsertUser(users, new)
          THEN /\ resp' = [req EXCEPT !.status = 500, !.error = "IntegrityError"]
               /\ UNCHANGED <<users, tokens>>
        ELSE /\ users' = users \cup {new}
             /\ tokens' = tokens \cup {new.id}
             /\ resp' = [req EXCEPT !.status = 303, !.location = "/dashboard",
                                    !.user = new.id, !.created = new.id]
  /\ UNCHANGED <<csv, result, admin_env, flights>>

\* GET /auth/google/callback.  outcome: "state" (the state cookie does not
\* match), "notoken" (Google returned no access token), "noemail" (the user
\* info has no email) or "ok"; name.has tells whether the info has a name.
GoogleCallback(outcome, name, email) ==
  /\ Cardinality(users) < MaxUsers
  /\ LET req == [NoRequest EXCEPT !.op = "google_callback"]
         picked == unique_username(IF name.has THEN name.val ELSE BeforeAt(email), users)
         new == User(NextId(users), picked.username, email, FALSE)
     IN IF outcome = "state"
          THEN /\ resp' = [req EXCEPT !.status = 303, !.location = "/login?error=state"]
               /\ UNCHANGED <<users, tokens>>
        ELSE IF outcome \in {"notoken", "noemail"}
          THEN /\ resp' = [req EXCEPT !.status = 303, !.location = "/login?error=google"]
               /\ UNCHANGED <<users, tokens>>
        ELSE IF \E u \in users : u.email = email
          THEN LET user == CHOOSE u \in users : u.email = email
               IN /\ resp' = [req EXCEPT !.status = 303, !.location = "/dashboard",
                                         !.email = email, !.user = user.id]
                  /\ tokens' = tokens \cup {user.id}
                  /\ UNCHANGED users
        ELSE IF ~CanInsertUser(users, new)
          THEN /\ resp' = [req EXCEPT !.status = 500, !.error = "IntegrityError",
                                      !.email = email, !.iterations = picked.iterations]
               /\ UNCHANGED <<users, tokens>>
        ELSE /\ users' = users \cup {new}
             /\ tokens' = tokens \cup {new.id}
             /\ resp' = [req EXCEPT !.status = 303, !.location = "/dashboard",
                                    !.email = email, !.user = new.id,
                                    !.created = new.id, !.username = new.username,
                                    !.iterations = picked.iterations]
  /\ UNCHANGED <<csv, result, admin_env, flights>>

\* ------------------------------------------------ app/routes/flights.py
\* len(contents) > MAX_FILE_SIZE, with the limit ten times too high.
TooLargeLax(size) == size > 10 * MAX_FILE_SIZE

\* len(contents) > MAX_FILE_SIZE
TooLarge(size) == size > MAX_FILE_SIZE

\* contents.decode("utf-8", errors="replace"): the text of a file with an
\* invalid byte holds U+FFFD in its place.
Decode(contents) == IF contents.valid THEN "text" ELSE "text U+FFFD"

\* Flight(**kwargs) and db.add / db.commit: the row stored, or the exception.
NewFlight(kwargs, db) ==
  IF ~(DOMAIN kwargs \subseteq FlightAttributes)
    THEN [exc |-> "TypeError", row |-> <<>>]
  ELSE IF ~(FlightRequired \subseteq DOMAIN kwargs)
    THEN [exc |-> "IntegrityError", row |-> <<>>]
  ELSE [exc |-> "", row |-> [id |-> NextId(db)] @@ kwargs]

\* POST /upload
UploadFlight(cookie, filename, contents) ==
  /\ LET current_user == get_current_user(cookie, users)
         req == [NoRequest EXCEPT !.op = "upload_flight", !.cookie = cookie,
                                  !.user = current_user.id, !.filename = filename,
                                  !.size = contents.size, !.text = Decode(contents)]
         made == NewFlight([user_id |-> current_user.id, name |-> "name",
                            description |-> "", csv_data |-> Decode(contents)], flights)
     IN IF current_user = NoUser
          THEN resp' = LoginRedirect("upload_flight", cookie) /\ UNCHANGED flights
        ELSE IF ~EndsWith(filename, <<".", "c", "s", "v">>)
          THEN /\ resp' = [req EXCEPT !.status = 400, !.error = "Only .csv files are accepted."]
               /\ UNCHANGED flights
        ELSE IF TooLarge(contents.size)
          THEN /\ resp' = [req EXCEPT !.status = 400, !.error = "File exceeds 10 MB limit."]
               /\ UNCHANGED flights
        ELSE IF made.exc # ""
          THEN /\ resp' = [req EXCEPT !.status = 500, !.error = made.exc]
               /\ UNCHANGED flights
        ELSE /\ flights' = flights \cup {made.row}
             /\ resp' = [req EXCEPT !.status = 303, !.location = "/flight/{id}",
                                    !.flight_id = made.row.id]
  /\ UNCHANGED <<csv, result, admin_env, users, tokens>>

\* flight.user_id != current_user.id, with the admin exemption forgotten
\* and the comparison turned around.
NotAuthorizedInverted(flight, current_user) == flight.user_id = current_user.id

\* flight.user_id != current_user.id and not current_user.is_admin
NotAuthorized(flight, current_user) ==
  flight.user_id # current_user.id /\ ~current_user.is_admin

\* GET /flight/{flight_id}.  tried: the try block of lines 113-118 was
\* entered; reading flight.csv_data there raises AttributeError on a row
\* without that attribute, which the except clause turns into the error text.
ViewFlight(cookie, flight_id) ==
  /\ LET current_user == get_current_user(cookie, users)
         req == [NoRequest EXCEPT !.op = "view_flight", !.cookie = cookie,
                                  !.user = current_user.id, !.flight_id = flight_id]
     IN IF current_user = NoUser
          THEN resp' = [LoginRedirect("view_flight", cookie) EXCEPT !.flight_id = flight_id]
        ELSE IF ~\E f \in flights : f.id = flight_id
          THEN resp' = [req EXCEPT !.status = 404, !.error = "Flight not found"]
        ELSE LET flight == CHOOSE f \in flights : f.id = flight_id
             IN IF NotAuthorized(flight, current_user)
                  THEN resp' = [req EXCEPT !.status = 403, !.error = "Not authorized"]
                ELSE IF "csv_data" \notin DOMAIN flight
                  THEN resp' = [req EXCEPT !.status = 200, !.tried = TRUE,
                                           !.error = "AttributeError"]
                ELSE LET chart == ParseFlightCsv(Doc(flight.csv_data))
                     IN resp' = [req EXCEPT !.status = 200, !.tried = TRUE,
                                            !.error = chart.exc]
  /\ UNCHANGED <<csv, result, admin_env, users, flights, tokens>>

\* ------------------------------------------------------------- start-up
\* The database file outlives the process (database.py line 6; create_all
\* keeps the rows it finds): a fresh one, or one written by earlier runs,
\* whose clients still hold their tokens, one of them for a user since removed.
FreshDB == [users |-> {}, flights |-> {}, tokens |-> {9}]
UsedDB ==
  [users |-> {User(1, <<"b">>, <<"b", "@", "x">>, TRUE),
              User(2, <<"c">>, <<"c", "@", "x">>, FALSE)},
   flights |-> {[id |-> 1, user_id |-> 2, name |-> "name", description |-> "",
                 filename |-> "f.csv"]},
   tokens |-> {1, 2, 9}]

\* main.py lines 25-41: seed the admin when the environment names one and no
\* user has that name.
Seeded(db, name) ==
  IF name # <<>> /\ ~\E u \in db : u.username = name
    THEN db \cup {User(NextId(db), name, name \o <<"@", "admin.local">>, TRUE)}
  ELSE db

Init ==
  /\ csv = EmptyText
  /\ result = None
  /\ admin_env \in {<<>>, <<"a">>}
  /\ \E db \in {FreshDB, UsedDB} :
       /\ users = Seeded(db.users, admin_env)
       /\ flights = db.flights
       /\ tokens = db.tokens
  /\ resp = NoRequest

RegUsernames == {<<"a">>, <<"a", "1">>, <<"u", "s", "e", "r">>}
Emails == {<<"a", "@", "x">>, <<"A", "-", "@", "x">>, <<"-", "@", "x">>}
GoogleNames == {[has |-> FALSE, val |-> <<>>], [has |-> TRUE, val |-> <<"A">>]}
Filenames == {<<"f", ".", "c", "s", "v">>, <<"f", ".", "C", "S", "V">>, <<"c", "s", "v">>}
Contents ==
  {[size |-> n, valid |-> TRUE] : n \in {1, MAX_FILE_SIZE, MAX_FILE_SIZE + 1}}
    \cup {[size |-> 1, valid |-> FALSE]}
FlightIds == {1, 2}

Next ==
  \/ \E username \in RegUsernames, email \in Emails : Register(username, email)
  \/ \E outcome \in {"state", "notoken", "noemail", "ok"}, name \in GoogleNames,
        email \in Emails : GoogleCallback(outcome, name, email)
  \/ \E cookie \in Cookies, filename \in Filenames, contents \in Contents :
       UploadFlight(cookie, filename, contents)
  \/ \E cookie \in Cookies, flight_id \in FlightIds : ViewFlight(cookie, flight_id)

Spec == Init /\ [][Next]_vars

\* ------------------------------------------------- transformer claims
Done == result # None
Channels == {"time", "altitude", "net_accel", "x", "y", "z", "temp"}
\* The column names of the text, trimmed.
TrimmedNames(d) == {Strip(d.hdr[j]) : j \in DOMAIN d.hdr}
HeaderComplete(d) == required \subseteq TrimmedNames(d)
\* The field position of the column named w in a row of d.
PositionOf(d, w) ==
  LET width == IF d.rows = <<>> THEN Len(d.hdr) ELSE Max(Len(d.hdr), Len(d.rows[1]))
  IN (width - Len(d.hdr)) + (CHOOSE j \in DOMAIN d.hdr : Strip(d.hdr[j]) = <<w>>)
\* The number a cell stands for when every cell of the text is numeric.
NumberAt(d, r, w) ==
  LET tok == FieldAt(d, r, PositionOf(d, w))
  IN CASE tok.t = "na" -> NaN [] tok.t = "inf" -> PInf [] OTHER -> Lit(tok.v)
\* What one channel holds for row r.
Sanitized(v) == IF IsNaN(v) THEN Lit(0) ELSE Round4(v)
BaselineOf(d) ==
  Mean([r \in 1..Min(BaselineWindow, Len(d.rows)) |-> NumberAt(d, r, "Kpa")])
RowOut(d, r) ==
  [time |-> Sanitized(NumberAt(d, r, TimeCol)),
   altitude |-> Sanitized(Altitude(NumberAt(d, r, "Kpa"), BaselineOf(d))),
   net_accel |-> Sanitized(NetAccel(NumberAt(d, r, "x"), NumberAt(d, r, "y"),
                                    NumberAt(d, r, "z"))),
   x |-> Sanitized(NumberAt(d, r, "x")),
   y |-> Sanitized(NumberAt(d, r, "y")),
   z |-> Sanitized(NumberAt(d, r, "z")),
   temp |-> Sanitized(NumberAt(d, r, "F"))]

\* C1: a text with a header that lacks a required column (names compared
\* trimmed, case-sensitively) ends in the error "CSV missing columns" naming
\* exactly the required names the header lacks, whatever its rows hold, and
\* no metric is derived before the failure.
C1_MissingColumnsError ==
  (Done /\ Doc(csv).hdr # <<>> /\ ~HeaderComplete(Doc(csv)))
    => /\ result.kind = "raise"
       /\ result.exc = "ValueError"
       /\ result.missing = required \ TrimmedNames(Doc(csv))
       /\ ~result.derived

\* C2: every value of every returned sequence is finite.
C2_OutputFinite ==
  result.kind = "ok"
    => \A ch \in Channels : \A i \in DOMAIN result.out[ch] : IsFinite(result.out[ch][i])

\* C3: with the six required columns present the call never raises: any
\* other malformation ends in a success result.
C3_OnlyMissingColumnsFails ==
  (Done /\ HeaderComplete(Doc(csv))) => result.kind = "ok"

\* C4: on success the seven sequences have the length of the row count and
\* entry i of each is what row i of the text gives.
C4_LengthAndAlignment ==
  result.kind = "ok"
    => \A ch \in Channels :
         /\ Len(result.out[ch]) = csv.n
         /\ \A i \in 1..csv.n : result.out[ch][i] = RowOut(Doc(csv), i)[ch]
\* A success on two rows, one of them cut short.
C4_Witness ==
  /\ result.kind = "ok"
  /\ csv.n = 2
  /\ \E e \in csv.edits : e.k = "trunc"
  /\ result.out["temp"][1] # result.out["temp"][2]

\* C5: when the baseline pressure is 0, every entry of the altitude
\* sequence is 0.0.
C5_ZeroBaselineAltitudeZero ==
  (result.kind = "ok" /\ BaselineOf(Doc(csv)) \in {Val("fin", "ratio", 0, c, 0) : c \in 1..BaselineWindow})
    => \A i \in DOMAIN result.out["altitude"] : result.out["altitude"][i] = Lit(0)

\* C6: a header with the six required columns and no data row ends either
\* in an explicit validation error or in a success whose seven sequences are
\* all empty.
C6_ZeroRows ==
  (Done /\ HeaderComplete(Doc(csv)) /\ Doc(csv).rows = <<>>)
    => \/ result.kind = "raise" /\ result.exc = "ValueError"
       \/ result.kind = "ok" /\ \A ch \in Channels : result.out[ch] = <<>>
\* The header-only text has been transformed into seven empty sequences.
C6_Witness ==
  /\ result.kind = "ok"
  /\ HeaderComplete(Doc(csv))
  /\ csv.n = 0
  /\ result.out["altitude"] = <<>>

\* ---------------------------------------------------------- web claims
CsvSuffix == <<".", "c", "s", "v">>

\* C7: after an upload that passes the extension and size checks the
\* uploading user owns a stored flight holding the uploaded text, which is
\* what a later view transforms.
C7_UploadStoresText ==
  (/\ resp.op = "upload_flight"
   /\ resp.user # 0
   /\ EndsWith(resp.filename, CsvSuffix)
   /\ resp.size <= MAX_FILE_SIZE)
    => /\ resp.status = 303
       /\ \E f \in flights :
            /\ f.id = resp.flight_id
            /\ f.user_id = resp.user
            /\ "csv_data" \in DOMAIN f
            /\ f.csv_data = resp.text

\* C8: an upload whose filename does not end in ".csv" or whose content is
\* larger than 10 MB is rejected (status 400; the redirect to /login when
\* nobody is signed in) and leaves the stored flights as they were; the
\* flights change only by an upload that passed both checks.
C8_RejectedUploads ==
  [][/\ (/\ resp'.op = "upload_flight"
         /\ (~EndsWith(resp'.filename, CsvSuffix) \/ resp'.size > MAX_FILE_SIZE))
          => /\ flights' = flights
             /\ resp'.status = IF resp'.user = 0 THEN 303 ELSE 400
     /\ flights' # flights
          => /\ resp'.op = "upload_flight"
             /\ resp'.user # 0
             /\ EndsWith(resp'.filename, CsvSuffix)
             /\ resp'.size <= MAX_FILE_SIZE]_vars
\* A signed-in user's ".csv" upload of more than 10 MB has been refused.
C8_Witness ==
  /\ resp.op = "upload_flight"
  /\ resp.user # 0
  /\ EndsWith(resp.filename, CsvSuffix)
  /\ resp.size = MAX_FILE_SIZE + 1
  /\ resp.status = 400

\* C9: view_flight enters the transformer's try block only for the flight's
\* owner or an admin; a signed-in request for a flight that does not exist
\* gets 404, one by any other user 403, and a request without a valid
\* session is redirected to /login; none of the three reaches the transformer.
C9_ViewAuthorization ==
  resp.op = "view_flight"
    => LET cu == get_current_user(resp.cookie, users)
           exists == \E f \in flights : f.id = resp.flight_id
           own == \E f \in flights : f.id = resp.flight_id /\ f.user_id = cu.id
       IN /\ cu = NoUser
               => resp.status = 303 /\ resp.location = "/login" /\ ~resp.tried
          /\ (cu # NoUser /\ ~exists) => resp.status = 404 /\ ~resp.tried
          /\ (cu # NoUser /\ exists /\ ~own /\ ~cu.is_admin)
               => resp.status = 403 /\ ~resp.tried
          /\ resp.tried => cu # NoUser /\ exists /\ (own \/ cu.is_admin)
\* A signed-in user who neither owns the flight nor is an admin got 403.
C9_Witness ==
  /\ resp.op = "view_flight"
  /\ resp.status = 403
  /\ \E f \in flights : f.id = resp.flight_id /\ f.user_id # resp.user

\* C10: no two users share a username or an email; register answers 400 and
\* creates nothing when the username or the email is present; the Google
\* callback signs in the user who has the email, and otherwise creates one
\* whose username no user had, after at most one pass of the
\* _unique_username loop per user present.
C10_UniqueUsers ==
  LET before == {u \in users : u.id # resp.created}
  IN /\ \A u, v \in users :
          (u.username = v.username \/ u.email = v.email \/ u.id = v.id) => u = v
     /\ (/\ resp.op = "register"
         /\ \E u \in before : u.username = resp.username \/ u.email = resp.email)
          => resp.status = 400 /\ resp.created = 0
     /\ (resp.op = "google_callback" /\ resp.email # <<>>)
          => IF \E u \in before : u.email = resp.email
               THEN /\ resp.created = 0
                    /\ \E u \in before : u.email = resp.email /\ u.id = resp.user
               ELSE /\ resp.created # 0
                    /\ \E u \in users :
                         /\ u.id = resp.created
                         /\ u.email = resp.email
                         /\ \A v \in before : v.username # u.username
                    /\ resp.iterations <= Cardinality(before)
\* The Google callback created a user after two passes of the loop: both the
\* base name and its first numbered variant were taken.
C10_Witness ==
  /\ resp.op = "google_callback"
  /\ resp.created # 0
  /\ resp.iterations = 2
====
